---- MODULE Spec2Model ----
(***************************************************************************)
(* Diagnosis aggregation and vehicle-plausibility filtering                *)
(* (src/diagnostic_engine.py), modelled call by call.                      *)
(*                                                                         *)
(* Python values are represented as follows.                               *)
(*   str            a TLA+ string                                          *)
(*   list           a sequence                                             *)
(*   Optional[x]    <<>> for None, <<x>> for a value x                     *)
(*   dict           a function on its keys (the empty dict is <<>>)        *)
(*   float          confidence is kept in hundredths (0.95 is 95)          *)
(*   exception      the record [raised |-> "<exception name>"]             *)
(*                                                                         *)
(* The confidence of src/ai_diagnostics.py is a whole number of percent.   *)
(* Its float inputs are kept as integers: rms_energy and                   *)
(* zero_crossing_rate in thousandths (0.05 is 50), similarity in           *)
(* hundredths (0.7 is 70).                                                 *)
(***************************************************************************)
EXTENDS Integers, Sequences, FiniteSets, TLC

VARIABLES
    \* arguments of aggregate_diagnoses
    youtube_titles, youtube_descriptions, youtube_comments,
    youtube_transcripts, spectrogram_match, ai_diagnosis, vehicle_info,
    \* locals of aggregate_diagnoses, as they stand when it returns
    all_keywords, sources, keyword_counter, ranked_keywords,
    filtered_keywords, most_common_keywords,
    \* the returned dict, and the position of the call
    result, pc,
    \* arguments and results of the VehicleSpecificationChecker calls
    manufacturer, model, year, diagnosis, turbo, diesel, plausible, vpc,
    \* argument and result of an extract_keywords call, and its position
    given_text, found_keywords, epc,
    \* arguments of the AIDiagnosticEngine calls, the HTTP response, the
    \* results of the two calls, and the position of the call
    ai_vehicle_info, audio_features, youtube_data, enhanced_context,
    response, ai_confidence, analysis, apc,
    \* download_multiple: its argument, the number of videos submitted so
    \* far, and per video the state of its future, the value its download
    \* returned and the number of times its download was started
    videos, submitted, future_state, download, attempts,
    \* the executor: its work queue, its threads and its idle semaphore
    work_queue, threads, idle_semaphore,
    \* the videos in the order their downloads finished
    completed,
    \* as_completed: the futures found finished when it starts, those of
    \* them not yet yielded, the futures it still waits for, and the finished
    \* futures its waiter has collected
    found_finished, early, pending, waiter_finished,
    \* the results list, and the position of the calling thread
    results, dpc

aggVars == <<youtube_titles, youtube_descriptions, youtube_comments,
             youtube_transcripts, spectrogram_match, ai_diagnosis,
             vehicle_info, all_keywords, sources, keyword_counter,
             ranked_keywords, filtered_keywords, most_common_keywords,
             result, pc>>
vehVars == <<manufacturer, model, year, diagnosis, turbo, diesel, plausible,
             vpc>>
extVars == <<given_text, found_keywords, epc>>
aiVars == <<ai_vehicle_info, audio_features, youtube_data, enhanced_context,
            response, ai_confidence, analysis, apc>>
dlVars == <<videos, submitted, future_state, download, attempts, work_queue,
            threads, idle_semaphore, completed, found_finished, early,
            pending, waiter_finished, results, dpc>>
vars == <<aggVars, vehVars, extVars, aiVars, dlVars>>

\* What the calls of one class leave alone: the variables of the others.
notAgg == <<vehVars, extVars, aiVars, dlVars>>
notVeh == <<aggVars, extVars, aiVars, dlVars>>
notExt == <<aggVars, vehVars, aiVars, dlVars>>
notAi == <<aggVars, vehVars, extVars, dlVars>>
notDl == <<aggVars, vehVars, extVars, aiVars>>

---------------------------------------------------------------------------
\* Bounds of the model.

\* Largest number of texts over the four YouTube collections together.
MaxItems == 2

\* Largest number of videos given to download_multiple.
MaxVideos == 4

---------------------------------------------------------------------------
\* Python built-ins used by the code.

None == <<>>
Some(x) == <<x>>

\* `sub in s` on strings.
Contains(sub, s) ==
    \E i \in 1..(Len(s) - Len(sub) + 1) : SubSeq(s, i, i + Len(sub) - 1) = sub

UpperLetters == "ABCDEFGHIJKLMNOPQRSTUVWXYZ"
LowerLetters == "abcdefghijklmnopqrstuvwxyz"

LowerChar(c) ==
    IF \E i \in 1..Len(UpperLetters) : SubSeq(UpperLetters, i, i) = c
    THEN LET i == CHOOSE j \in 1..Len(UpperLetters) :
                      SubSeq(UpperLetters, j, j) = c
         IN  SubSeq(LowerLetters, i, i)
    ELSE c

RECURSIVE lower(_)
\* str.lower() on ASCII text.
lower(s) ==
    IF s = "" THEN ""
    ELSE LowerChar(SubSeq(s, 1, 1)) \o lower(SubSeq(s, 2, Len(s)))

\* dict.get(key, default)
Get(d, key, default) == IF key \in DOMAIN d THEN d[key] ELSE default

\* Truth value of an optional list, string or dict: None and the empty
\* value are both false.
\* (TruthyListIsNotNone: `is not None` in place of the truth test.)
TruthyListIsNotNone(opt) == opt # None
TruthyList(opt) == opt # None /\ Len(opt[1]) > 0
TruthyStr(opt) == opt # None /\ opt[1] # ""
TruthyDict(opt) == opt # None /\ DOMAIN opt[1] # {}

---------------------------------------------------------------------------
\* The values the calls are made with.

TitleTexts == {"Worn Brake Pads", "turbo boost", "brake pad"}
DescriptionTexts == {"noise", "turbo boost"}
CommentTexts == {"brake pad"}
TranscriptTexts == {"Worn Brake Pads"}
SpectrogramTexts == {"", "brake", "Wastegate rattle"}
AiTexts == {"", "brake pad"}

\* The arguments of the VehicleSpecificationChecker calls.
Manufacturers ==
    {"BMW", "Mercedes-Benz", "Volkswagen", "Toyota", "Ford", "Kia", "bmw"}
Models ==
    {"335i", "Corolla", "GOLF gti", "f-150", "Accord 2.0T", "Camry Turbo", ""}
Years == {2015, 2016, 2017}
Diagnoses == {"turbo issue", "brake issue", "Boost leak", "DPF clogged"}

\* The texts of the extract_keywords calls: a leading and a trailing part.
LeadingParts ==
    {"", "brake ", "Timing Chain ", "worn ", "Wheel ", "engine ", "TURBO",
     "cv "}
TrailingParts ==
    {"", "pads", "tensioner", "bearing", "mount", "charger", "axle", "noise"}
ExtractTexts ==
    {None} \cup {Some(a \o b) : a \in LeadingParts, b \in TrailingParts}

AllTexts ==
    TitleTexts \cup DescriptionTexts \cup CommentTexts \cup TranscriptTexts
        \cup SpectrogramTexts \cup AiTexts

VehicleInfos == <<
    None,
    Some(<<>>),
    Some([manufacturer |-> "Toyota", model |-> "Corolla", year |-> 2015]),
    Some([manufacturer |-> "BMW", model |-> "335i", year |-> 2018]),
    Some([model |-> "Golf GTI"]) >>

\* The vehicle_info dicts that are not empty.
VehicleDicts ==
    {VehicleInfos[i][1] : i \in {j \in 1..Len(VehicleInfos) :
                                    /\ VehicleInfos[j] # None
                                    /\ DOMAIN VehicleInfos[j][1] # {}}}

---------------------------------------------------------------------------
\* VehicleSpecificationChecker

TURBO_MODELS ==
    [BMW |-> <<"335i", "535i", "M235i", "M135i", "340i", "440i", "X3 28i",
               "X5 35i">>,
     Audi |-> <<"A3", "A4", "A6", "Q5", "TT", "S3", "S4", "S5">>,
     Volkswagen |-> <<"GTI", "Golf R", "Jetta GLI", "Tiguan", "Passat">>,
     Ford |-> <<"EcoBoost", "Mustang", "F-150", "Explorer">>,
     Toyota |-> <<>>,
     Honda |-> <<"Civic Type R", "Accord 2.0T">>,
     Mazda |-> <<"CX-7", "CX-9", "MazdaSpeed">>,
     Hyundai |-> <<"Veloster N", "Sonata 2.0T", "Santa Fe">>,
     Nissan |-> <<"Juke", "Sentra", "Altima">>]
    @@ ("Mercedes-Benz" :>
          <<"C250", "C300", "E250", "GLC250", "CLA250", "AMG">>)

\* any(k in s for k in seq)
AnyIn(seq, s) == \E i \in 1..Len(seq) : Contains(seq[i], s)

\* (has_turbo_after_2016: `year > 2016` in place of `year >= 2016`.)
has_turbo_after_2016(m, mo, y) ==
    IF y > 2016 /\ m \in {"BMW", "Audi", "Mercedes-Benz", "Volkswagen"}
    THEN TRUE
    ELSE IF /\ m \in DOMAIN TURBO_MODELS
            /\ \E i \in 1..Len(TURBO_MODELS[m]) :
                   Contains(lower(TURBO_MODELS[m][i]), lower(mo))
    THEN TRUE
    ELSE AnyIn(<<"turbo", "tsi", "tfsi", "ecoboost", "tdi", "gti">>,
               lower(mo))

has_turbo(m, mo, y) ==
    IF y >= 2016 /\ m \in {"BMW", "Audi", "Mercedes-Benz", "Volkswagen"}
    THEN TRUE
    ELSE IF /\ m \in DOMAIN TURBO_MODELS
            /\ \E i \in 1..Len(TURBO_MODELS[m]) :
                   Contains(lower(TURBO_MODELS[m][i]), lower(mo))
    THEN TRUE
    ELSE AnyIn(<<"turbo", "tsi", "tfsi", "ecoboost", "tdi", "gti">>,
               lower(mo))

\* (has_diesel_without_d: the keyword list without its bare 'd'.)
has_diesel_without_d(m, mo, y) ==
    AnyIn(<<"diesel", "tdi", "dci", "hdi", "crdi">>, lower(mo))

has_diesel(m, mo, y) ==
    AnyIn(<<"diesel", "tdi", "d", "dci", "hdi", "crdi">>, lower(mo))

\* (filter_diagnosis_turbo_only: the turbo rule looking for 'turbo' alone.)
filter_diagnosis_turbo_only(d, m, mo, y) ==
    LET diagnosis_lower == lower(d)
        has_turbo_issue == AnyIn(<<"turbo">>, diagnosis_lower)
        has_diesel_issue ==
            AnyIn(<<"diesel", "dpf", "def", "egr">>, diagnosis_lower)
    IN  IF has_turbo_issue /\ ~has_turbo(m, mo, y) THEN FALSE
        ELSE IF has_diesel_issue /\ ~has_diesel(m, mo, y) THEN FALSE
        ELSE TRUE

\* (filter_diagnosis_diesel_by_d: the diesel rule looking for has_diesel's
\* keywords, the bare 'd' among them.)
filter_diagnosis_diesel_by_d(d, m, mo, y) ==
    LET diagnosis_lower == lower(d)
        has_turbo_issue ==
            AnyIn(<<"turbo", "wastegate", "boost", "supercharger">>,
                  diagnosis_lower)
        has_diesel_issue ==
            AnyIn(<<"diesel", "tdi", "d", "dci", "hdi", "crdi">>,
                  diagnosis_lower)
    IN  IF has_turbo_issue /\ ~has_turbo(m, mo, y) THEN FALSE
        ELSE IF has_diesel_issue /\ ~has_diesel(m, mo, y) THEN FALSE
        ELSE TRUE

filter_diagnosis(d, m, mo, y) ==
    LET diagnosis_lower == lower(d)
        has_turbo_issue ==
            AnyIn(<<"turbo", "wastegate", "boost", "supercharger">>,
                  diagnosis_lower)
        has_diesel_issue ==
            AnyIn(<<"diesel", "dpf", "def", "egr">>, diagnosis_lower)
    IN  IF has_turbo_issue /\ ~has_turbo(m, mo, y) THEN FALSE
        ELSE IF has_diesel_issue /\ ~has_diesel(m, mo, y) THEN FALSE
        ELSE TRUE

---------------------------------------------------------------------------
\* DiagnosisAggregator

keywords == <<
    "brake", "brakes", "pad", "pads", "rotor", "rotors", "caliper",
    "bearing", "bearings", "wheel bearing", "hub bearing", "belt",
    "serpentine", "serpentine belt", "timing belt", "timing chain",
    "exhaust", "muffler", "catalytic converter", "manifold", "suspension",
    "shock", "shocks", "strut", "struts", "strut mount", "engine", "motor",
    "piston", "cylinder", "transmission", "gearbox", "clutch", "turbo",
    "turbocharger", "wastegate", "boost", "alternator", "starter", "battery",
    "pulley", "idler", "tensioner", "timing chain tensioner", "mount",
    "engine mount", "motor mount", "transmission mount", "cv joint",
    "cv axle", "axle", "driveshaft", "tire", "tires", "wheel", "leak",
    "leaking", "fluid", "worn", "wear", "damage", "damaged", "loose",
    "broken", "cracked", "misfire", "ignition", "spark plug", "coil",
    "sway bar", "ball joint", "tie rod", "control arm", "power steering",
    "rack and pinion", "steering", "vanos", "variable valve timing", "vvt" >>

\* (extract_keywords_case_sensitive: the text searched as it is written.)
extract_keywords_case_sensitive(txt) ==
    IF txt = "" THEN <<>>
    ELSE SelectSeq(keywords, LAMBDA keyword : Contains(keyword, txt))

extract_keywords(text) ==
    IF text = "" THEN <<>>
    ELSE LET text_lower == lower(text)
         IN  SelectSeq(keywords, LAMBDA keyword : Contains(keyword, text_lower))

\* extract_keywords over the texts of the model, evaluated once.
ExtractedKeywords == {<<t, extract_keywords(t)>> : t \in AllTexts}
KeywordsIn(text) == (CHOOSE p \in ExtractedKeywords : p[1] = text)[2]

RECURSIVE ScanTexts(_)
\* for text in texts: all_keywords.extend(extract_keywords(text))
ScanTexts(texts) ==
    IF texts = <<>> THEN <<>>
    ELSE KeywordsIn(Head(texts)) \o ScanTexts(Tail(texts))

\* The keywords one YouTube collection adds (nothing when None or empty).
ScanCollection(opt) == IF TruthyList(opt) THEN ScanTexts(opt[1]) ELSE <<>>

\* keywords * 2: list repetition.
\* (Once: the weight of 2 left out.)
Once(kws) == kws
Twice(kws) == kws \o kws

\* The keywords spectrogram_match or ai_diagnosis adds.
ScanWeighted(opt) ==
    IF TruthyStr(opt) THEN Twice(KeywordsIn(opt[1])) ELSE <<>>

\* all_keywords when the scan is over.
ScanAll(titles, descriptions, comments, transcripts, spectrogram, ai) ==
    ScanCollection(titles) \o ScanCollection(descriptions)
        \o ScanCollection(comments) \o ScanCollection(transcripts)
        \o ScanWeighted(spectrogram) \o ScanWeighted(ai)

\* f"{label} ({len(collection)})" when the collection is truthy.
CollectionSource(label, opt) ==
    IF TruthyList(opt)
    THEN <<label \o " (" \o ToString(Len(opt[1])) \o ")">>
    ELSE <<>>

StringSource(label, opt) == IF TruthyStr(opt) THEN <<label>> ELSE <<>>

\* (SourcesAiFirst: the AI entry appended before the spectrogram entry.)
SourcesAiFirst(titles, descriptions, comments, transcripts, spectrogram, ai) ==
    CollectionSource("YouTube titles", titles)
        \o CollectionSource("YouTube descriptions", descriptions)
        \o CollectionSource("YouTube comments", comments)
        \o CollectionSource("YouTube transcripts", transcripts)
        \o StringSource("AI analysis", ai)
        \o StringSource("Spectrogram match", spectrogram)

\* sources when the scan is over.
SourcesOf(titles, descriptions, comments, transcripts, spectrogram, ai) ==
    CollectionSource("YouTube titles", titles)
        \o CollectionSource("YouTube descriptions", descriptions)
        \o CollectionSource("YouTube comments", comments)
        \o CollectionSource("YouTube transcripts", transcripts)
        \o StringSource("Spectrogram match", spectrogram)
        \o StringSource("AI analysis", ai)

RECURSIVE FirstSeen(_)
\* The distinct elements of a list in the order of their first occurrence:
\* the key order of Counter(list).
FirstSeen(seq) ==
    IF seq = <<>> THEN <<>>
    ELSE LET init == FirstSeen(SubSeq(seq, 1, Len(seq) - 1))
             last == seq[Len(seq)]
         IN  IF \E i \in 1..Len(init) : init[i] = last
             THEN init ELSE Append(init, last)

\* Counter(list).items(): <<key, count>> pairs in insertion order.
Counter(seq) ==
    LET keys == FirstSeen(seq)
    IN  [i \in 1..Len(keys) |->
            <<keys[i], Cardinality({j \in 1..Len(seq) : seq[j] = keys[i]})>>]

RECURSIVE SortedTiesReversed(_)
\* (SortedTiesReversed: a sort that puts the later of two equal counts first.)
SortedTiesReversed(items) ==
    IF items = <<>> THEN <<>>
    ELSE LET init == SortedTiesReversed(SubSeq(items, 1, Len(items) - 1))
             last == items[Len(items)]
             pos == Cardinality({i \in 1..Len(init) : init[i][2] > last[2]})
         IN  SubSeq(init, 1, pos) \o <<last>>
                 \o SubSeq(init, pos + 1, Len(init))

RECURSIVE SortedByCount(_)
\* sorted(items, key=count, reverse=True): stable, so items of equal count
\* keep their relative order.
SortedByCount(items) ==
    IF items = <<>> THEN <<>>
    ELSE LET init == SortedByCount(SubSeq(items, 1, Len(items) - 1))
             last == items[Len(items)]
             pos == Cardinality({i \in 1..Len(init) : init[i][2] >= last[2]})
         IN  SubSeq(init, 1, pos) \o <<last>>
                 \o SubSeq(init, pos + 1, Len(init))

\* (most_common_untruncated: the sorted items without the cut at n.)
most_common_untruncated(items, n) == SortedByCount(items)

\* Counter.most_common(n) = heapq.nlargest(n, items, key=count)
most_common(items, n) ==
    LET sorted == SortedByCount(items)
    IN  SubSeq(sorted, 1, IF Len(sorted) < n THEN Len(sorted) ELSE n)

\* filter_diagnosis(f"{keyword} issue", manufacturer, model, year) with the
\* three taken from vehicle_info by .get and its defaults.
KeywordPasses(keyword, info) ==
    filter_diagnosis(keyword \o " issue", Get(info, "manufacturer", ""),
                     Get(info, "model", ""), Get(info, "year", 2020))

\* KeywordPasses over the vocabulary and the vehicles of the model,
\* evaluated once.
PassingKeywords ==
    {<<info, {keywords[i] : i \in {j \in 1..Len(keywords) :
                                      KeywordPasses(keywords[j], info)}}>> :
        info \in VehicleDicts}
Passes(keyword, info) ==
    keyword \in (CHOOSE p \in PassingKeywords : p[1] = info)[2]

\* The loop building filtered_keywords.
FilterKeywords(ranked, info) ==
    SelectSeq(ranked, LAMBDA kc : Passes(kc[1], info))

\* filtered_keywords, or [] when vehicle_info is falsy and the loop never runs.
FilteredOf(ranked, info) ==
    IF TruthyDict(info) THEN FilterKeywords(ranked, info[1]) ELSE <<>>

\* most_common_keywords after `if filtered_keywords:`.
\* (AlwaysFiltered: the assignment made without the test.)
AlwaysFiltered(ranked, filtered) == filtered
KeepOrFallback(ranked, filtered) ==
    IF filtered # <<>> THEN filtered ELSE ranked

\* sum(count for _, count in keyword_counter.items())
RECURSIVE SumCounts(_)
SumCounts(items) ==
    IF items = <<>> THEN 0 ELSE Head(items)[2] + SumCounts(Tail(items))

\* The ties of round(x, 2): the pairs <<top_count, total_mentions>> whose
\* exact value 1.2 * top / total lies half way between two hundredths and
\* whose double lies above the half way point.  Such ties need a total that
\* is a multiple of 16.
TiesRoundedUp == {<<5, 16>>, <<7, 16>>, <<10, 32>>, <<14, 32>>}

\* (ConfidenceUnclamped: the same without min(0.95, ...).)
ConfidenceUnclamped(top_count, total_mentions) ==
    LET scaled == 120 * top_count
        q == scaled \div total_mentions
        r == scaled % total_mentions
    IN  IF 2 * r > total_mentions THEN q + 1
        ELSE IF 2 * r < total_mentions THEN q
        ELSE IF <<top_count, total_mentions>> \in TiesRoundedUp
             THEN q + 1 ELSE q

\* round(min(0.95, (top_count / total_mentions) * 1.2), 2), in hundredths.
ConfidenceOf(top_count, total_mentions) ==
    LET scaled == 120 * top_count
        q == scaled \div total_mentions
        r == scaled % total_mentions
        rounded == IF 2 * r > total_mentions THEN q + 1
                   ELSE IF 2 * r < total_mentions THEN q
                   ELSE IF <<top_count, total_mentions>> \in TiesRoundedUp
                        THEN q + 1 ELSE q
    IN  IF 100 * scaled >= 95 * 100 * total_mentions THEN 95 ELSE rounded

\* (DiagnosisStrictThreshold: `>` in place of `>=`.)
DiagnosisStrictThreshold(candidates) ==
    LET top_keyword == candidates[1][1]
        top_count == candidates[1][2]
    IN  IF /\ Len(candidates) > 1
           /\ 5 * candidates[2][2] > 3 * top_count
        THEN "Likely " \o top_keyword \o " or " \o candidates[2][1]
                 \o " issue detected"
        ELSE "Likely " \o top_keyword \o " issue detected"

\* The diagnosis sentence built from the final candidate list.
DiagnosisOf(candidates) ==
    LET top_keyword == candidates[1][1]
        top_count == candidates[1][2]
    IN  IF /\ Len(candidates) > 1
           \* second_count >= top_count * 0.6
           /\ 5 * candidates[2][2] >= 3 * top_count
        THEN "Likely " \o top_keyword \o " or " \o candidates[2][1]
                 \o " issue detected"
        ELSE "Likely " \o top_keyword \o " issue detected"

\* [k for k, _ in most_common_keywords]
KeysOf(items) == [i \in 1..Len(items) |-> items[i][1]]

\* dict(most_common_keywords)
DictOf(items) ==
    [k \in {items[i][1] : i \in 1..Len(items)} |->
        items[CHOOSE i \in 1..Len(items) :
                  /\ items[i][1] = k
                  /\ \A j \in (i + 1)..Len(items) : items[j][1] # k][2]]

\* (SentinelWithoutSources: the sentinel with a literal [] for its sources.)
SentinelWithoutSources(srcs) ==
    [diagnosis |-> "Unable to determine issue - insufficient data",
     confidence |-> 30,
     sources |-> <<>>,
     keywords |-> <<>>]

Sentinel(srcs) ==
    [diagnosis |-> "Unable to determine issue - insufficient data",
     confidence |-> 30,
     sources |-> srcs,
     keywords |-> <<>>]

\* (ComposeTotalOfCandidates: total_mentions summed over the candidates only.)
ComposeTotalOfCandidates(candidates, counter, srcs) ==
    IF candidates = <<>> THEN [raised |-> "IndexError"]
    ELSE IF SumCounts(counter) = 0 THEN [raised |-> "ZeroDivisionError"]
    ELSE [diagnosis |-> DiagnosisOf(candidates),
          confidence |-> ConfidenceOf(candidates[1][2], SumCounts(candidates)),
          sources |-> srcs,
          keywords |-> KeysOf(candidates),
          keyword_counts |-> DictOf(candidates)]

\* The return value built from the final candidate list.
Compose(candidates, counter, srcs) ==
    IF candidates = <<>> THEN [raised |-> "IndexError"]
    ELSE IF SumCounts(counter) = 0 THEN [raised |-> "ZeroDivisionError"]
    ELSE [diagnosis |-> DiagnosisOf(candidates),
          confidence |-> ConfidenceOf(candidates[1][2], SumCounts(counter)),
          sources |-> srcs,
          keywords |-> KeysOf(candidates),
          keyword_counts |-> DictOf(candidates)]

\* aggregate_diagnoses: its locals and its return value.
aggregate_diagnoses(titles, descriptions, comments, transcripts, spectrogram, ai, info) ==
    LET kws == ScanAll(titles, descriptions, comments, transcripts,
                       spectrogram, ai)
        srcs == SourcesOf(titles, descriptions, comments, transcripts,
                          spectrogram, ai)
    IN  IF kws = <<>>
        THEN [all_keywords |-> kws, sources |-> srcs,
              keyword_counter |-> <<>>, ranked_keywords |-> <<>>,
              filtered_keywords |-> <<>>, most_common_keywords |-> <<>>,
              result |-> Sentinel(srcs)]
        ELSE LET counter == Counter(kws)
                 ranked == most_common(counter, 5)
                 filtered == FilteredOf(ranked, info)
                 final == IF TruthyDict(info)
                          THEN KeepOrFallback(ranked, filtered)
                          ELSE ranked
             IN  [all_keywords |-> kws, sources |-> srcs,
                  keyword_counter |-> counter, ranked_keywords |-> ranked,
                  filtered_keywords |-> filtered,
                  most_common_keywords |-> final,
                  result |-> Compose(final, counter, srcs)]

---------------------------------------------------------------------------
\* The inputs the model draws from.

RECURSIVE ListsUpTo(_, _)
\* The lists of at most n texts of a pool.
ListsUpTo(pool, n) ==
    IF n = 0 THEN {<<>>}
    ELSE LET shorter == ListsUpTo(pool, n - 1)
         IN  shorter \cup {Append(l, t) : l \in shorter, t \in pool}

\* None, or a list of at most n texts.
OptionalLists(pool, n) == {None} \cup {Some(l) : l \in ListsUpTo(pool, n)}
OptionalStrings(pool) == {None} \cup {Some(t) : t \in pool}

LenOf(opt) == IF opt = None THEN 0 ELSE Len(opt[1])

Unset == <<>>

AggInit ==
    /\ youtube_titles \in OptionalLists(TitleTexts, MaxItems)
    /\ youtube_descriptions \in OptionalLists(DescriptionTexts, MaxItems)
    /\ youtube_comments \in OptionalLists(CommentTexts, MaxItems)
    /\ youtube_transcripts \in OptionalLists(TranscriptTexts, MaxItems)
    /\ LenOf(youtube_titles) + LenOf(youtube_descriptions)
         + LenOf(youtube_comments) + LenOf(youtube_transcripts) <= MaxItems
    /\ spectrogram_match \in OptionalStrings(SpectrogramTexts)
    /\ ai_diagnosis \in OptionalStrings(AiTexts)
    /\ \E i \in 1..Len(VehicleInfos) : vehicle_info = VehicleInfos[i]
    /\ all_keywords = Unset
    /\ sources = Unset
    /\ keyword_counter = Unset
    /\ ranked_keywords = Unset
    /\ filtered_keywords = Unset
    /\ most_common_keywords = Unset
    /\ result = Unset
    /\ pc = "call"

AggIdle ==
    /\ youtube_titles = None
    /\ youtube_descriptions = None
    /\ youtube_comments = None
    /\ youtube_transcripts = None
    /\ spectrogram_match = None
    /\ ai_diagnosis = None
    /\ vehicle_info = None
    /\ all_keywords = Unset
    /\ sources = Unset
    /\ keyword_counter = Unset
    /\ ranked_keywords = Unset
    /\ filtered_keywords = Unset
    /\ most_common_keywords = Unset
    /\ result = Unset
    /\ pc = "idle"

VehIdle ==
    /\ manufacturer = ""
    /\ model = ""
    /\ year = 0
    /\ diagnosis = ""
    /\ turbo = FALSE
    /\ diesel = FALSE
    /\ plausible = FALSE
    /\ vpc = "idle"

\* One call of DiagnosisAggregator.aggregate_diagnoses.
AggregateDiagnoses ==
    /\ pc = "call"
    /\ LET out == aggregate_diagnoses(youtube_titles, youtube_descriptions,
                      youtube_comments, youtube_transcripts,
                      spectrogram_match, ai_diagnosis, vehicle_info)
       IN  /\ all_keywords' = out.all_keywords
           /\ sources' = out.sources
           /\ keyword_counter' = out.keyword_counter
           /\ ranked_keywords' = out.ranked_keywords
           /\ filtered_keywords' = out.filtered_keywords
           /\ most_common_keywords' = out.most_common_keywords
           /\ result' = out.result
    /\ pc' = "done"
    /\ UNCHANGED <<youtube_titles, youtube_descriptions, youtube_comments,
                   youtube_transcripts, spectrogram_match, ai_diagnosis,
                   vehicle_info>>
    /\ UNCHANGED notAgg

VehInit ==
    /\ manufacturer \in Manufacturers
    /\ model \in Models
    /\ year \in Years
    /\ diagnosis \in Diagnoses
    /\ turbo = FALSE
    /\ diesel = FALSE
    /\ plausible = FALSE
    /\ vpc = "call"

\* One call of VehicleSpecificationChecker.has_turbo.
HasTurbo ==
    /\ vpc = "call"
    /\ turbo' = has_turbo(manufacturer, model, year)
    /\ vpc' = "has_turbo"
    /\ UNCHANGED <<manufacturer, model, year, diagnosis, diesel, plausible>>
    /\ UNCHANGED notVeh

\* One call of VehicleSpecificationChecker.has_diesel.
HasDiesel ==
    /\ vpc = "call"
    /\ diesel' = has_diesel(manufacturer, model, year)
    /\ vpc' = "has_diesel"
    /\ UNCHANGED <<manufacturer, model, year, diagnosis, turbo, plausible>>
    /\ UNCHANGED notVeh

\* One call of VehicleSpecificationChecker.filter_diagnosis.
FilterDiagnosis ==
    /\ vpc = "call"
    /\ plausible' = filter_diagnosis(diagnosis, manufacturer, model, year)
    /\ vpc' = "filter_diagnosis"
    /\ UNCHANGED <<manufacturer, model, year, diagnosis, turbo, diesel>>
    /\ UNCHANGED notVeh

---------------------------------------------------------------------------
\* AIDiagnosticEngine

\* d.get(key) is truthy, for a value that is a list or a dict.
TruthyAt(d, key) == key \in DOMAIN d /\ DOMAIN d[key] # {}

\* d.get(key) is truthy, for a value that is a string.
TruthyStrAt(d, key) == key \in DOMAIN d /\ d[key] # ""

\* What the three blocks of _calculate_comprehensive_confidence add to the
\* base value.
ConfidenceBonuses(af, yd, ec) ==
    LET audio ==
            IF TruthyDict(af)
            THEN (IF Get(af[1], "rms_energy", 0) > 50 THEN 5 ELSE 0)
                 + (IF /\ 50 < Get(af[1], "zero_crossing_rate", 0)
                       /\ Get(af[1], "zero_crossing_rate", 0) < 400
                    THEN 5 ELSE 0)
            ELSE 0
        num_videos == Len(Get(yd[1], "titles", <<>>))
        similarity == Get(yd[1].best_match, "similarity", 0)
        youtube ==
            IF TruthyDict(yd)
            THEN (IF num_videos >= 10 THEN 10
                  ELSE IF num_videos >= 5 THEN 7
                  ELSE IF num_videos >= 1 THEN 3 ELSE 0)
                 + (IF TruthyAt(yd[1], "comments") THEN 3 ELSE 0)
                 + (IF TruthyAt(yd[1], "transcripts") THEN 3 ELSE 0)
                 + (IF TruthyAt(yd[1], "best_match")
                    THEN IF similarity > 70 THEN 5
                         ELSE IF similarity > 50 THEN 3 ELSE 0
                    ELSE 0)
            ELSE 0
        context ==
            IF TruthyDict(ec)
            THEN (IF TruthyStrAt(ec[1], "audio_description") THEN 3 ELSE 0)
                 + (IF TruthyAt(ec[1], "occurrence") THEN 2 ELSE 0)
            ELSE 0
    IN  audio + youtube + context

\* (calculate_confidence_uncapped: the sum returned without min(..., 95).)
calculate_confidence_uncapped(af, yd, ec) ==
    70 + ConfidenceBonuses(af, yd, ec)

\* _calculate_comprehensive_confidence
calculate_comprehensive_confidence(af, yd, ec) ==
    LET confidence == 70 + ConfidenceBonuses(af, yd, ec)
    IN  IF confidence < 95 THEN confidence ELSE 95

Whitespace == {" ", "\n", "\t"}

RECURSIVE lstrip(_)
lstrip(str) ==
    IF str # "" /\ SubSeq(str, 1, 1) \in Whitespace
    THEN lstrip(SubSeq(str, 2, Len(str))) ELSE str

RECURSIVE rstrip(_)
rstrip(str) ==
    IF str # "" /\ SubSeq(str, Len(str), Len(str)) \in Whitespace
    THEN rstrip(SubSeq(str, 1, Len(str) - 1)) ELSE str

\* str.strip()
strip(str) == rstrip(lstrip(str))

\* _build_comprehensive_context: the context string is left abstract; the
\* call raises when vehicle_info or audio_features is None, whose .get it
\* calls without a test.
build_comprehensive_context(vinfo, af) ==
    IF vinfo = None \/ af = None
    THEN [raised |-> "AttributeError"]
    ELSE [context |-> "built"]

\* response.json() followed by
\* result['choices'][0]['message']['content'].strip()
DiagnosisText(resp) ==
    IF resp.body = None THEN [raised |-> "JSONDecodeError"]
    ELSE LET parsed == resp.body[1]
         IN  IF "choices" \notin DOMAIN parsed THEN [raised |-> "KeyError"]
             ELSE IF parsed.choices = <<>> THEN [raised |-> "IndexError"]
             ELSE IF "message" \notin DOMAIN parsed.choices[1]
                  THEN [raised |-> "KeyError"]
             ELSE IF "content" \notin DOMAIN parsed.choices[1].message
                  THEN [raised |-> "KeyError"]
             ELSE IF parsed.choices[1].message.content = None
                  THEN [raised |-> "AttributeError"]
             ELSE [text |-> strip(parsed.choices[1].message.content[1])]

\* sources_used
SourcesUsed(af, yd, ec) ==
    (IF TruthyDict(af) THEN <<"Audio analysis">> ELSE <<>>)
    \o (IF TruthyDict(yd)
        THEN <<ToString(Len(Get(yd[1], "titles", <<>>))) \o " YouTube videos">>
             \o (IF TruthyAt(yd[1], "comments")
                 THEN <<ToString(Len(yd[1].comments)) \o " comments">>
                 ELSE <<>>)
             \o (IF TruthyAt(yd[1], "transcripts")
                 THEN <<ToString(Len(yd[1].transcripts)) \o " transcripts">>
                 ELSE <<>>)
        ELSE <<>>)
    \o (IF TruthyDict(ec) /\ TruthyStrAt(ec[1], "audio_description")
        THEN <<"User description">> ELSE <<>>)

\* (StatusIsAnything: the response parsed whatever its status code.)
StatusIsAnything(reply) == TRUE

\* response.status_code == 200
StatusIsOk(reply) == reply.status_code = 200

\* analyze_with_all_sources: the response it received (None when the request
\* was never sent) and its return value.  Every exception of the body is an
\* Exception, which the except clause turns into a return of None.
analyze_with_all_sources(vinfo, af, yd, ec, reply) ==
    LET context == build_comprehensive_context(vinfo, af)
        diagnosis_text == DiagnosisText(reply)
    IN  IF "raised" \in DOMAIN context
        THEN [response |-> None, result |-> None]
        ELSE IF "raised" \in DOMAIN reply
        THEN [response |-> Some(reply), result |-> None]
        ELSE IF StatusIsOk(reply)
        THEN IF "raised" \in DOMAIN diagnosis_text
             THEN [response |-> Some(reply), result |-> None]
             ELSE [response |-> Some(reply),
                   result |-> Some(
                       [diagnosis |-> diagnosis_text.text,
                        confidence |->
                            calculate_comprehensive_confidence(af, yd, ec),
                        ai_generated |-> TRUE,
                        sources_used |-> SourcesUsed(af, yd, ec)])]
        ELSE [response |-> Some(reply), result |-> None]

\* The arguments of the AIDiagnosticEngine calls.
AiVehicleInfos ==
    {None, Some([manufacturer |-> "Toyota", model |-> "Corolla",
                 year |-> 2015])}

AudioFeatures ==
    {None, Some(<<>>)}
        \cup {Some([rms_energy |-> r, zero_crossing_rate |-> z]) :
                 r \in {50, 51}, z \in {50, 51, 400}}

\* A list of n strings.
ListOf(n, str) == [i \in 1..n |-> str]

YoutubeData ==
    {None}
        \cup {Some(t @@ c @@ r @@ b) :
                 t \in {<<>>} \cup {[titles |-> ListOf(n, "title")] :
                                       n \in {0, 1, 4, 5, 9, 10}},
                 c \in {<<>>, [comments |-> ListOf(2, "comment")]},
                 r \in {[transcripts |-> <<>>],
                        [transcripts |-> ListOf(1, "transcript")]},
                 b \in {<<>>} \cup {[best_match |-> [similarity |-> sim]] :
                                       sim \in {50, 51, 70, 71}}}

EnhancedContexts ==
    {None, Some(<<>>),
     Some([audio_description |-> ""]),
     Some([audio_description |-> "grinding when braking"]),
     Some([occurrence |-> <<"braking">>]),
     Some([audio_description |-> "grinding when braking",
           occurrence |-> <<"braking", "cold start">>])}

\* A response body with a diagnosis at choices[0].message.content.
DiagnosisBody ==
    Some([choices |->
             <<[message |->
                   [content |-> Some("  Brake pad wear - Replace pads.\n")]]>>])

\* What requests.post can come back with: an exception, or a response with
\* its status code and its body (None when the body is not JSON).
Replies ==
    {[raised |-> "Timeout"],
     [raised |-> "ConnectionError"],
     [status_code |-> 200, body |-> DiagnosisBody],
     [status_code |-> 200, body |-> None],
     [status_code |-> 200, body |-> Some([error |-> "overloaded"])],
     [status_code |-> 200, body |-> Some([choices |-> <<>>])],
     [status_code |-> 200,
      body |-> Some([choices |-> <<[message |-> [content |-> None]]>>])],
     [status_code |-> 201, body |-> DiagnosisBody],
     [status_code |-> 500, body |-> None]}

AiIdle ==
    /\ ai_vehicle_info = None
    /\ audio_features = None
    /\ youtube_data = None
    /\ enhanced_context = None
    /\ response = None
    /\ ai_confidence = 0
    /\ analysis = None
    /\ apc = "idle"

AiInit ==
    /\ ai_vehicle_info \in AiVehicleInfos
    /\ audio_features \in AudioFeatures
    /\ youtube_data \in YoutubeData
    /\ enhanced_context \in EnhancedContexts
    /\ response = None
    /\ ai_confidence = 0
    /\ analysis = None
    /\ apc = "call"

\* One call of AIDiagnosticEngine._calculate_comprehensive_confidence.
CalculateComprehensiveConfidence ==
    /\ apc = "call"
    /\ ai_confidence' = calculate_comprehensive_confidence(
                            audio_features, youtube_data, enhanced_context)
    /\ apc' = "confidence"
    /\ UNCHANGED <<ai_vehicle_info, audio_features, youtube_data,
                   enhanced_context, response, analysis>>
    /\ UNCHANGED notAi

\* One call of AIDiagnosticEngine.analyze_with_all_sources, with the reply
\* of the HTTP request it makes.
AnalyzeWithAllSources ==
    /\ apc = "call"
    /\ \E reply \in Replies :
           LET out == analyze_with_all_sources(ai_vehicle_info,
                          audio_features, youtube_data, enhanced_context,
                          reply)
           IN  /\ response' = out.response
               /\ analysis' = out.result
    /\ apc' = "analyzed"
    /\ UNCHANGED <<ai_vehicle_info, audio_features, youtube_data,
                   enhanced_context, ai_confidence>>
    /\ UNCHANGED notAi

---------------------------------------------------------------------------
\* YouTubeAudioDownloader.download_multiple

\* ThreadPoolExecutor(max_workers=3)
max_workers == 3

\* The videos of the model, named by their place in the list.
VideoIds == 1..MaxVideos

\* What download_audio_with_metadata returns: (audio_file, metadata) when
\* the audio file exists, (None, None) when the file is missing after the
\* download and when an exception was caught.
DownloadReturns(v, how) ==
    IF how = "audio"
    THEN Some(<<Some("audio_" \o ToString(v) \o ".wav"), Some([id |-> v])>>)
    ELSE Some(<<None, None>>)

DownloadEndings == {"audio", "missing", "exception"}

\* (TruthyResult: `if result:` without `and result[0]`.)
TruthyResult(res) == res # None

\* if result and result[0]
HasAudio(res) == res # None /\ res[1][1] # None

\* results after the loop body has run for video v.
Collected(res, v) ==
    IF HasAudio(download[v])
    THEN Append(res, <<v, download[v][1][1], download[v][1][2]>>)
    ELSE res

\* (ThreadsUnbounded: a thread started for every submit that finds no idle
\* thread.)
ThreadsUnbounded(n, idle) == IF idle > 0 THEN n ELSE n + 1

\* ThreadPoolExecutor._adjust_thread_count: the number of threads after a
\* submit.
ThreadsAfterSubmit(n, idle) ==
    IF idle > 0 THEN n
    ELSE IF n < max_workers THEN n + 1 ELSE n

\* The downloads in progress.
Running == {v \in VideoIds : future_state[v] = "RUNNING"}

DlIdle ==
    /\ videos = <<>>
    /\ submitted = 0
    /\ future_state = [v \in VideoIds |-> "none"]
    /\ download = [v \in VideoIds |-> None]
    /\ attempts = [v \in VideoIds |-> 0]
    /\ work_queue = <<>>
    /\ threads = 0
    /\ idle_semaphore = 0
    /\ completed = <<>>
    /\ found_finished = {}
    /\ early = {}
    /\ pending = {}
    /\ waiter_finished = <<>>
    /\ results = <<>>
    /\ dpc = "idle"

DlInit ==
    /\ \E n \in 0..MaxVideos : videos = [i \in 1..n |-> i]
    /\ submitted = 0
    /\ future_state = [v \in VideoIds |-> "none"]
    /\ download = [v \in VideoIds |-> None]
    /\ attempts = [v \in VideoIds |-> 0]
    /\ work_queue = <<>>
    /\ threads = 0
    /\ idle_semaphore = 0
    /\ completed = <<>>
    /\ found_finished = {}
    /\ early = {}
    /\ pending = {}
    /\ waiter_finished = <<>>
    /\ results = <<>>
    /\ dpc = "submit"

\* executor.submit for the next video of the list: the future is created,
\* its work item queued, and a thread started when none is idle and fewer
\* than max_workers exist.
Submit ==
    /\ dpc = "submit"
    /\ submitted < Len(videos)
    /\ LET v == videos[submitted + 1]
       IN  /\ future_state' = [future_state EXCEPT ![v] = "PENDING"]
           /\ work_queue' = Append(work_queue, v)
    /\ threads' = ThreadsAfterSubmit(threads, idle_semaphore)
    /\ idle_semaphore' =
           IF idle_semaphore > 0 THEN idle_semaphore - 1 ELSE 0
    /\ submitted' = submitted + 1
    /\ UNCHANGED found_finished
    /\ UNCHANGED <<videos, download, attempts, completed, early, pending,
                   waiter_finished, results, dpc>>
    /\ UNCHANGED notDl

\* A worker thread takes the oldest work item and starts
\* download_audio_with_metadata for it.
StartDownload ==
    /\ work_queue # <<>>
    /\ Cardinality(Running) < threads
    /\ LET v == Head(work_queue)
       IN  /\ future_state' = [future_state EXCEPT ![v] = "RUNNING"]
           /\ attempts' = [attempts EXCEPT ![v] = @ + 1]
    /\ work_queue' = Tail(work_queue)
    /\ UNCHANGED found_finished
    /\ UNCHANGED <<videos, submitted, download, threads, idle_semaphore,
                   completed, early, pending, waiter_finished, results, dpc>>
    /\ UNCHANGED notDl

\* download_audio_with_metadata returns for video v: the future is finished
\* with its value, a waiting as_completed is told, and the worker counts
\* itself idle.
FinishDownload(v, how) ==
    /\ future_state[v] = "RUNNING"
    /\ future_state' = [future_state EXCEPT ![v] = "FINISHED"]
    /\ download' = [download EXCEPT ![v] = DownloadReturns(v, how)]
    /\ completed' = Append(completed, v)
    /\ waiter_finished' =
           IF v \in pending THEN Append(waiter_finished, v)
           ELSE waiter_finished
    /\ idle_semaphore' = idle_semaphore + 1
    /\ UNCHANGED found_finished
    /\ UNCHANGED <<videos, submitted, attempts, work_queue, threads, early,
                   pending, results, dpc>>
    /\ UNCHANGED notDl

\* as_completed(future_to_video) starts once every video is submitted: the
\* futures already finished are set apart, the others get a waiter.
AsCompleted ==
    /\ dpc = "submit"
    /\ submitted = Len(videos)
    /\ found_finished' = {v \in VideoIds : future_state[v] = "FINISHED"}
    /\ early' = found_finished'
    /\ pending' = {v \in VideoIds : future_state[v] \in {"PENDING", "RUNNING"}}
    /\ dpc' = "collect"
    /\ UNCHANGED <<videos, submitted, future_state, download, attempts,
                   work_queue, threads, idle_semaphore, completed,
                   waiter_finished, results>>
    /\ UNCHANGED notDl

\* One turn of the loop for a future that was finished when as_completed
\* started; these come out of a set, in no particular order.
CollectEarly(v) ==
    /\ dpc = "collect"
    /\ v \in early
    /\ early' = early \ {v}
    /\ results' = Collected(results, v)
    /\ UNCHANGED found_finished
    /\ UNCHANGED <<videos, submitted, future_state, download, attempts,
                   work_queue, threads, idle_semaphore, completed, pending,
                   waiter_finished, dpc>>
    /\ UNCHANGED notDl

\* One turn of the loop for a future that finished while as_completed was
\* waiting; these come in the order the waiter collected them.
CollectCompleted ==
    /\ dpc = "collect"
    /\ early = {}
    /\ waiter_finished # <<>>
    /\ pending' = pending \ {Head(waiter_finished)}
    /\ waiter_finished' = Tail(waiter_finished)
    /\ results' = Collected(results, Head(waiter_finished))
    /\ UNCHANGED found_finished
    /\ UNCHANGED <<videos, submitted, future_state, download, attempts,
                   work_queue, threads, idle_semaphore, completed, early,
                   dpc>>
    /\ UNCHANGED notDl

\* The loop ends when no future is left, the executor is shut down and
\* results is returned.
ReturnResults ==
    /\ dpc = "collect"
    /\ early = {}
    /\ pending = {}
    /\ dpc' = "returned"
    /\ UNCHANGED found_finished
    /\ UNCHANGED <<videos, submitted, future_state, download, attempts,
                   work_queue, threads, idle_semaphore, completed, early,
                   pending, waiter_finished, results>>
    /\ UNCHANGED notDl

\* The steps of the thread that called download_multiple.
CallingThread ==
    \/ Submit
    \/ AsCompleted
    \/ \E v \in VideoIds : CollectEarly(v)
    \/ CollectCompleted
    \/ ReturnResults

\* The steps of the worker threads.
WorkerThreads ==
    \/ StartDownload
    \/ \E v \in VideoIds, how \in DownloadEndings : FinishDownload(v, how)

ExtIdle ==
    /\ given_text = None
    /\ found_keywords = Unset
    /\ epc = "idle"

ExtInit ==
    /\ given_text \in ExtractTexts
    /\ found_keywords = Unset
    /\ epc = "call"

\* One call of DiagnosisAggregator.extract_keywords; `if not text` covers
\* None as well as the empty string.
ExtractKeywords ==
    /\ epc = "call"
    /\ found_keywords' =
           IF TruthyStr(given_text) THEN extract_keywords(given_text[1])
           ELSE <<>>
    /\ epc' = "done"
    /\ UNCHANGED given_text
    /\ UNCHANGED notExt

Init == AggInit /\ VehIdle /\ ExtIdle /\ AiIdle /\ DlIdle
Next == AggregateDiagnoses
Spec == Init /\ [][Next]_vars

\* The calls of the vehicle checker on their own.
InitVehicle == AggIdle /\ VehInit /\ ExtIdle /\ AiIdle /\ DlIdle
NextVehicle == HasTurbo \/ HasDiesel \/ FilterDiagnosis
SpecVehicle == InitVehicle /\ [][NextVehicle]_vars

\* The calls of extract_keywords on their own.
InitExtract == AggIdle /\ VehIdle /\ ExtInit /\ AiIdle /\ DlIdle
NextExtract == ExtractKeywords
SpecExtract == InitExtract /\ [][NextExtract]_vars

\* The calls of the AI diagnostic engine on their own.
InitAi == AggIdle /\ VehIdle /\ ExtIdle /\ AiInit /\ DlIdle
NextAi == CalculateComprehensiveConfidence \/ AnalyzeWithAllSources
SpecAi == InitAi /\ [][NextAi]_vars

\* One call of download_multiple: its calling thread and the worker threads
\* of its executor.  The calling thread takes its next step whenever it
\* can, and a worker that can start or finish a download does so.
InitDownload == AggIdle /\ VehIdle /\ ExtIdle /\ AiIdle /\ DlInit
NextDownload == CallingThread \/ WorkerThreads
SpecDownload ==
    InitDownload /\ [][NextDownload]_vars /\ WF_vars(CallingThread)

---------------------------------------------------------------------------
\* Vocabulary of the properties below.

Vocabulary == {keywords[i] : i \in 1..Len(keywords)}

\* <<k, t>>: keyword k occurs in text t, case-insensitively.
Mentioned ==
    UNION {LET text_lower == lower(t)
           IN  {<<k, t>> : k \in {v \in Vocabulary : Contains(v, text_lower)}} :
           t \in AllTexts}

\* The number of texts of a collection that mention k.
MentionsIn(opt, k) ==
    IF opt = None THEN 0
    ELSE Cardinality({i \in 1..Len(opt[1]) : <<k, opt[1][i]>> \in Mentioned})

\* 1 when the optional string mentions k, else 0.
MentionedBy(opt, k) ==
    IF opt # None /\ <<k, opt[1]>> \in Mentioned THEN 1 ELSE 0

\* The weighted count the specification gives keyword k.
ExpectedCount(k) ==
    MentionsIn(youtube_titles, k) + MentionsIn(youtube_descriptions, k)
        + MentionsIn(youtube_comments, k) + MentionsIn(youtube_transcripts, k)
        + 2 * MentionedBy(spectrogram_match, k)
        + 2 * MentionedBy(ai_diagnosis, k)

\* The count of k in the tally the call built (0 when k is not a key).
TallyCount(k) ==
    IF \E i \in 1..Len(keyword_counter) : keyword_counter[i][1] = k
    THEN keyword_counter[CHOOSE i \in 1..Len(keyword_counter) :
                             keyword_counter[i][1] = k][2]
    ELSE 0

\* No input carries any text: each is absent or empty.
AllInputsEmpty ==
    /\ youtube_titles \in {None, Some(<<>>)}
    /\ youtube_descriptions \in {None, Some(<<>>)}
    /\ youtube_comments \in {None, Some(<<>>)}
    /\ youtube_transcripts \in {None, Some(<<>>)}
    /\ spectrogram_match \in {None, Some("")}
    /\ ai_diagnosis \in {None, Some("")}

\* The call returned a dict (it did not raise).
Returned == pc = "done" /\ "diagnosis" \in DOMAIN result

\* The call returned the composed result, not the sentinel.
Composed == Returned /\ "keyword_counts" \in DOMAIN result

SentinelText == "Unable to determine issue - insufficient data"

---------------------------------------------------------------------------
\* C1: every call of aggregate_diagnoses returns a confidence in [0, 0.95],
\* the sentinel result as well as the composed one.
ConfidenceInRange ==
    pc = "done" =>
        /\ Returned
        /\ result.confidence >= 0
        /\ result.confidence <= 95

\* A composed result whose unclamped value 1.2 * top / total is above 0.95.
ConfidenceClamped ==
    /\ Composed
    /\ result.confidence = 95
    /\ 120 * most_common_keywords[1][2] > 95 * SumCounts(keyword_counter)

\* Every candidate of the top 5 is dropped for the vehicle.
AllCandidatesDropped ==
    /\ TruthyDict(vehicle_info)
    /\ \A i \in 1..Len(ranked_keywords) :
           ~Passes(ranked_keywords[i][1], vehicle_info[1])

\* C2: when a keyword was tallied the candidates left after the plausibility
\* filter are not empty, and when the filter would drop all of the top 5 the
\* unfiltered top 5 is returned: same keywords, same counts, same order.
FallbackKeepsCandidates ==
    (pc = "done" /\ all_keywords # <<>>) =>
        /\ Composed
        /\ most_common_keywords # <<>>
        /\ result.keywords # <<>>
        /\ AllCandidatesDropped =>
               /\ most_common_keywords = ranked_keywords
               /\ result.keywords =
                      [i \in 1..Len(ranked_keywords) |-> ranked_keywords[i][1]]
               /\ DOMAIN result.keyword_counts =
                      {ranked_keywords[i][1] : i \in 1..Len(ranked_keywords)}
               /\ \A i \in 1..Len(ranked_keywords) :
                      result.keyword_counts[ranked_keywords[i][1]]
                          = ranked_keywords[i][2]

\* A call whose every candidate is implausible for the vehicle.
FallbackTaken ==
    /\ pc = "done"
    /\ ranked_keywords # <<>>
    /\ AllCandidatesDropped

\* C5: with every input empty or absent the result is the sentinel
\* diagnosis with confidence 0.3 and no sources.
AllEmptyGivesSentinel ==
    (pc = "done" /\ AllInputsEmpty) =>
        /\ Returned
        /\ result.diagnosis = SentinelText
        /\ result.confidence = 30
        /\ result.sources = <<>>

\* A call with an empty list and an empty string among its absent inputs.
EmptyButPresentInputs ==
    /\ pc = "done"
    /\ AllInputsEmpty
    /\ youtube_titles = Some(<<>>)
    /\ youtube_comments = Some(<<>>)
    /\ spectrogram_match = Some("")

\* C6: the tally gives each vocabulary keyword the number of texts of the
\* four collections that contain it, plus 2 if spectrogram_match contains it,
\* plus 2 if ai_diagnosis contains it, and holds no other key.
TallyIsWeightedCount ==
    pc = "done" =>
        /\ \A k \in Vocabulary : TallyCount(k) = ExpectedCount(k)
        /\ \A i \in 1..Len(keyword_counter) :
               keyword_counter[i][1] \in Vocabulary

\* A keyword counted from a title and from the spectrogram match.
SpectrogramWeighsTwo ==
    /\ pc = "done"
    /\ \E k \in Vocabulary :
           /\ MentionsIn(youtube_titles, k) = 1
           /\ MentionedBy(spectrogram_match, k) = 1
           /\ TallyCount(k) = 3

\* C7: the composed diagnosis names the first two keywords exactly when two
\* candidates survive and second_count >= 0.6 * top_count, and names the
\* first keyword alone in every other composed result.
DiagnosisNamesSecondAtThreshold ==
    Composed =>
        LET top == result.keywords[1]
            top_count == result.keyword_counts[top]
            both == /\ Len(result.keywords) >= 2
                    /\ 5 * result.keyword_counts[result.keywords[2]]
                           >= 3 * top_count
        IN  /\ result.keywords = KeysOf(most_common_keywords)
            /\ both =>
                   result.diagnosis =
                       "Likely " \o top \o " or " \o result.keywords[2]
                           \o " issue detected"
            /\ ~both =>
                   result.diagnosis = "Likely " \o top \o " issue detected"

\* A composed result whose second count is exactly 0.6 of the top count.
ThresholdExactlyMet ==
    /\ Composed
    /\ Len(result.keywords) >= 2
    /\ result.keyword_counts[result.keywords[1]] = 5
    /\ result.keyword_counts[result.keywords[2]] = 3
    /\ result.diagnosis = "Likely brake or pad issue detected"

\* The list with its entries i and i + 1 exchanged.
SwapAt(l, i) ==
    [j \in 1..Len(l) |->
        IF j = i THEN l[i + 1] ELSE IF j = i + 1 THEN l[i] ELSE l[j]]

\* The reorderings of a collection that exchange two neighbours.
Reordered(opt) ==
    IF opt = None THEN {}
    ELSE {Some(SwapAt(opt[1], i)) : i \in 1..(Len(opt[1]) - 1)}

\* Two results with the same diagnosis and the same keyword_counts.
SameOutcome(a, b) ==
    /\ a.diagnosis = b.diagnosis
    /\ ("keyword_counts" \in DOMAIN a) = ("keyword_counts" \in DOMAIN b)
    /\ "keyword_counts" \in DOMAIN a => a.keyword_counts = b.keyword_counts

\* C3: reordering the entries inside titles, descriptions, comments or
\* transcripts changes neither keyword_counts nor the diagnosis.
PermutationInvariance ==
    pc = "done" =>
        /\ \A t \in Reordered(youtube_titles) :
               SameOutcome(result,
                   aggregate_diagnoses(t, youtube_descriptions,
                       youtube_comments, youtube_transcripts,
                       spectrogram_match, ai_diagnosis, vehicle_info).result)
        /\ \A d \in Reordered(youtube_descriptions) :
               SameOutcome(result,
                   aggregate_diagnoses(youtube_titles, d,
                       youtube_comments, youtube_transcripts,
                       spectrogram_match, ai_diagnosis, vehicle_info).result)
        /\ \A c \in Reordered(youtube_comments) :
               SameOutcome(result,
                   aggregate_diagnoses(youtube_titles, youtube_descriptions,
                       c, youtube_transcripts,
                       spectrogram_match, ai_diagnosis, vehicle_info).result)
        /\ \A r \in Reordered(youtube_transcripts) :
               SameOutcome(result,
                   aggregate_diagnoses(youtube_titles, youtube_descriptions,
                       youtube_comments, r,
                       spectrogram_match, ai_diagnosis, vehicle_info).result)

\* The texts the call was given.
TextsOf(opt) == IF opt = None THEN {} ELSE {opt[1][i] : i \in 1..Len(opt[1])}
SuppliedTexts ==
    TextsOf(youtube_titles) \cup TextsOf(youtube_descriptions)
        \cup TextsOf(youtube_comments) \cup TextsOf(youtube_transcripts)
        \cup (IF spectrogram_match = None THEN {} ELSE {spectrogram_match[1]})
        \cup (IF ai_diagnosis = None THEN {} ELSE {ai_diagnosis[1]})

\* No vocabulary keyword occurs in any text the call was given.
NoKeywordMentioned ==
    \A t \in SuppliedTexts : \A k \in Vocabulary : <<k, t>> \notin Mentioned

\* The number of inputs that carry text.
NonEmptyInputs ==
    Cardinality({i \in 1..4 :
        LET opt == <<youtube_titles, youtube_descriptions, youtube_comments,
                     youtube_transcripts>>[i]
        IN  opt # None /\ opt[1] # <<>>})
    + Cardinality({i \in 1..2 :
        LET opt == <<spectrogram_match, ai_diagnosis>>[i]
        IN  opt # None /\ opt[1] # ""})

\* C4 as stated: with an empty tally the result is the fixed sentinel, its
\* sources being [].
EmptyTallyGivesFixedSentinel ==
    (pc = "done" /\ NoKeywordMentioned) =>
        result = [diagnosis |-> SentinelText, confidence |-> 30,
                  sources |-> <<>>, keywords |-> <<>>]

\* C4 (amended): with an empty tally the result has the sentinel diagnosis,
\* confidence 0.3, keywords [] and no keyword_counts; its sources hold one
\* entry for each non-empty input, so they are [] only when every input is
\* empty or absent.
EmptyTallyGivesSentinelWithSources ==
    (pc = "done" /\ NoKeywordMentioned) =>
        /\ DOMAIN result = {"diagnosis", "confidence", "sources", "keywords"}
        /\ result.diagnosis = SentinelText
        /\ result.confidence = 30
        /\ result.keywords = <<>>
        /\ Len(result.sources) = NonEmptyInputs
        /\ result.sources = <<>> <=> AllInputsEmpty

\* A call given a text that holds no keyword.
TextWithoutKeyword ==
    /\ pc = "done"
    /\ NoKeywordMentioned
    /\ youtube_descriptions = Some(<<"noise">>)
    /\ result.sources # <<>>

\* The keywords whose probe phrase "<keyword> issue" holds a turbo term, and
\* those whose probe holds a diesel term.
TurboProbes ==
    {k \in Vocabulary :
        \E term \in {"turbo", "wastegate", "boost", "supercharger"} :
            Contains(term, k \o " issue")}
DieselProbes ==
    {k \in Vocabulary :
        \E term \in {"diesel", "dpf", "def", "egr"} :
            Contains(term, k \o " issue")}

\* hasTurbo and hasDiesel of the vehicles of the model.
VehicleFlags ==
    {<<info,
       has_turbo(Get(info, "manufacturer", ""), Get(info, "model", ""),
                 Get(info, "year", 2020)),
       has_diesel(Get(info, "manufacturer", ""), Get(info, "model", ""),
                  Get(info, "year", 2020))>> : info \in VehicleDicts}
FlagsOf(info) == CHOOSE f \in VehicleFlags : f[1] = info

\* The rule of the plausibility filter for one candidate keyword.
DroppedByRule(k, info) ==
    \/ k \in TurboProbes /\ ~FlagsOf(info)[2]
    \/ k \in DieselProbes /\ ~FlagsOf(info)[3]

\* C8: with a vehicle profile a top-5 candidate is dropped exactly when its
\* probe holds a turbo term and the vehicle has no turbo, or holds a diesel
\* term and the vehicle is no diesel; the others keep their count and order,
\* and the survivors replace the top 5 unless there is none.  For
\* Toyota/Corolla/2015 'turbo' is excluded whenever a candidate survives.
FilterDropsExactlyImplausible ==
    (pc = "done" /\ TruthyDict(vehicle_info) /\ ranked_keywords # <<>>) =>
        LET info == vehicle_info[1]
            survivors ==
                SelectSeq(ranked_keywords,
                          LAMBDA kc : ~DroppedByRule(kc[1], info))
        IN  /\ filtered_keywords = survivors
            /\ most_common_keywords =
                   IF survivors # <<>> THEN survivors ELSE ranked_keywords
            /\ Composed
            /\ result.keywords = KeysOf(most_common_keywords)
            /\ (/\ info = [manufacturer |-> "Toyota", model |-> "Corolla",
                           year |-> 2015]
                /\ survivors # <<>>)
                   => \A i \in 1..Len(result.keywords) :
                          result.keywords[i] # "turbo"

\* A Toyota call whose top 5 holds 'turbo' and 'boost' beside a survivor.
TurboDroppedForToyota ==
    /\ Composed
    /\ TruthyDict(vehicle_info)
    /\ Get(vehicle_info[1], "manufacturer", "") = "Toyota"
    /\ \E i \in 1..Len(ranked_keywords) : ranked_keywords[i][1] = "turbo"
    /\ \E i \in 1..Len(ranked_keywords) : ranked_keywords[i][1] = "boost"
    /\ filtered_keywords # <<>>
    /\ Len(result.keywords) < Len(ranked_keywords)

\* C9: has_turbo is true exactly when the manufacturer is one of the four
\* and the year is 2016 or later, or the model contains an entry of the
\* manufacturer's table, or the model contains a generic turbo keyword.
HasTurboRule ==
    vpc = "has_turbo" =>
        (turbo <=>
            \/ /\ manufacturer \in
                      {"BMW", "Audi", "Mercedes-Benz", "Volkswagen"}
               /\ year >= 2016
            \/ /\ manufacturer \in DOMAIN TURBO_MODELS
               /\ \E i \in 1..Len(TURBO_MODELS[manufacturer]) :
                      Contains(lower(TURBO_MODELS[manufacturer][i]),
                               lower(model))
            \/ \E k \in {"turbo", "tsi", "tfsi", "ecoboost", "tdi", "gti"} :
                   Contains(k, lower(model)))

\* A 2016 BMW that is turbo by its year alone.
TurboByYearAlone ==
    /\ vpc = "has_turbo"
    /\ manufacturer = "BMW"
    /\ model = "Corolla"
    /\ year = 2016
    /\ turbo

\* The places of the scan where keyword k is added: <<collection, item,
\* place in the vocabulary>>, the collections numbered in the order titles,
\* descriptions, comments, transcripts, spectrogram_match, ai_diagnosis.
VocabularyIndex(k) == CHOOSE i \in 1..Len(keywords) : keywords[i] = k
PlacesIn(c, opt, k) ==
    IF opt = None THEN {}
    ELSE {<<c, i, VocabularyIndex(k)>> :
             i \in {j \in 1..Len(opt[1]) : <<k, opt[1][j]>> \in Mentioned}}
PlaceBy(c, opt, k) ==
    IF opt # None /\ <<k, opt[1]>> \in Mentioned
    THEN {<<c, 1, VocabularyIndex(k)>>} ELSE {}
Places(k) ==
    PlacesIn(1, youtube_titles, k) \cup PlacesIn(2, youtube_descriptions, k)
        \cup PlacesIn(3, youtube_comments, k)
        \cup PlacesIn(4, youtube_transcripts, k)
        \cup PlaceBy(5, spectrogram_match, k) \cup PlaceBy(6, ai_diagnosis, k)

Earlier(p, q) ==
    \/ p[1] < q[1]
    \/ p[1] = q[1] /\ p[2] < q[2]
    \/ p[1] = q[1] /\ p[2] = q[2] /\ p[3] < q[3]

\* The place where k is first added to the tally.
FirstPlace(k) ==
    CHOOSE p \in Places(k) : \A q \in Places(k) : q = p \/ Earlier(p, q)

\* Entry a ranks before entry b: a higher count, or the same count and
\* first added earlier.
RanksBefore(a, b) ==
    \/ a[2] > b[2]
    \/ a[2] = b[2] /\ Earlier(FirstPlace(a[1]), FirstPlace(b[1]))

\* C10: the ranked list is ordered by descending count, equal counts by the
\* place of the scan where the keyword was first added, and it holds the
\* first five entries of the tally in that order.
RankedByCountThenFirstSeen ==
    (pc = "done" /\ all_keywords # <<>>) =>
        /\ Len(ranked_keywords) =
               IF Len(keyword_counter) < 5 THEN Len(keyword_counter) ELSE 5
        /\ \A i \in 1..Len(ranked_keywords) :
               \E j \in 1..Len(keyword_counter) :
                   keyword_counter[j] = ranked_keywords[i]
        /\ \A i, j \in 1..Len(ranked_keywords) :
               i < j => RanksBefore(ranked_keywords[i], ranked_keywords[j])
        /\ \A j \in 1..Len(keyword_counter) :
               (\A i \in 1..Len(ranked_keywords) :
                    ranked_keywords[i] # keyword_counter[j])
                   => \A i \in 1..Len(ranked_keywords) :
                          RanksBefore(ranked_keywords[i], keyword_counter[j])

\* Two ranked keywords of equal count, the first from a title and the
\* second first seen in a later collection, with more than five keywords
\* tallied.
TieBrokenByCollection ==
    /\ pc = "done"
    /\ Len(keyword_counter) > 5
    /\ \E i, j \in 1..Len(ranked_keywords) :
           /\ i < j
           /\ ranked_keywords[i][2] = ranked_keywords[j][2]
           /\ FirstPlace(ranked_keywords[i][1])[1] = 1
           /\ FirstPlace(ranked_keywords[j][1])[1] > 1

---------------------------------------------------------------------------
\* <<t, n>>: text t mentions n vocabulary terms.
MentionCounts ==
    {<<t, Cardinality({k \in Vocabulary : <<k, t>> \in Mentioned})>> :
        t \in AllTexts}
MentionCount(t) == (CHOOSE p \in MentionCounts : p[1] = t)[2]

RECURSIVE SumMentions(_)
\* The vocabulary terms the texts of a list mention, text by text.
SumMentions(texts) ==
    IF texts = <<>> THEN 0
    ELSE MentionCount(Head(texts)) + SumMentions(Tail(texts))

\* The weighted counts of all vocabulary terms, added up: every mention in
\* a collection counts once, every mention in the spectrogram match or the
\* AI diagnosis twice.
ExpectedTotal ==
    LET of(opt) == IF opt = None THEN 0 ELSE SumMentions(opt[1])
        twice(opt) == IF opt = None THEN 0 ELSE 2 * MentionCount(opt[1])
    IN  of(youtube_titles) + of(youtube_descriptions) + of(youtube_comments)
            + of(youtube_transcripts) + twice(spectrogram_match)
            + twice(ai_diagnosis)

Abs(x) == IF x < 0 THEN -x ELSE x

\* C11: the confidence of a composed result is min(0.95, 1.2 * top / total)
\* taken to the nearest hundredth, where top is the weighted count of the
\* first keyword of the returned (possibly filtered) list and total is the
\* sum of the weighted counts of every keyword mentioned, whether or not it
\* is among the top five or survived the filter.
ConfidenceIsScaledTopShare ==
    Composed =>
        LET top == ExpectedCount(result.keywords[1])
            total == ExpectedTotal
            exact == IF 120 * top < 95 * total THEN 120 * top ELSE 95 * total
        IN  /\ result.keywords[1] = most_common_keywords[1][1]
            /\ total > 0
            /\ 2 * Abs(result.confidence * total - exact) <= total

\* A composed result whose first keyword is not the first of the ranked
\* list, with more than five keywords tallied and a value below the cap.
ConfidenceFromFilteredTop ==
    /\ Composed
    /\ Len(keyword_counter) > 5
    /\ filtered_keywords # <<>>
    /\ most_common_keywords[1] # ranked_keywords[1]
    /\ result.confidence < 95

---------------------------------------------------------------------------
\* The six inputs in the order of the scan, each with the audit entry it
\* gets when it is supplied and not empty.
AuditEntries ==
    LET counted(label, opt) ==
            <<opt # None /\ opt[1] # <<>>,
              label \o " (" \o ToString(LenOf(opt)) \o ")">>
        plain(label, opt) == <<opt # None /\ opt[1] # "", label>>
    IN  << counted("YouTube titles", youtube_titles),
           counted("YouTube descriptions", youtube_descriptions),
           counted("YouTube comments", youtube_comments),
           counted("YouTube transcripts", youtube_transcripts),
           plain("Spectrogram match", spectrogram_match),
           plain("AI analysis", ai_diagnosis) >>

\* C13: the sources list of every result holds exactly one entry for each
\* input supplied non-empty and none for an empty or absent one, in the
\* order titles, descriptions, comments, transcripts, spectrogram match,
\* AI diagnosis.
SourcesListSuppliedInputs ==
    pc = "done" =>
        /\ Returned
        /\ LET supplied == SelectSeq(AuditEntries, LAMBDA e : e[1])
           IN  result.sources = [i \in 1..Len(supplied) |-> supplied[i][2]]

\* A call given two collections, a spectrogram match and an AI diagnosis,
\* with the other two collections empty or absent.
FourSourcesListed ==
    /\ pc = "done"
    /\ Len(result.sources) = 4
    /\ spectrogram_match # None
    /\ ai_diagnosis # None
    /\ \E i \in 1..4 : AuditEntries[i] = <<FALSE, AuditEntries[i][2]>>

\* C15: a call of aggregate_diagnoses on well-formed inputs raises nothing:
\* it returns the sentinel or a composed result, and a composed result is
\* built from a non-empty candidate list and a positive total.
AggregateNeverFails ==
    pc = "done" =>
        /\ "raised" \notin DOMAIN result
        /\ \/ /\ DOMAIN result =
                    {"diagnosis", "confidence", "sources", "keywords"}
              /\ result.diagnosis = SentinelText
              /\ all_keywords = <<>>
           \/ /\ DOMAIN result = {"diagnosis", "confidence", "sources",
                                  "keywords", "keyword_counts"}
              /\ most_common_keywords # <<>>
              /\ SumCounts(keyword_counter) > 0

\* A composed result for a vehicle profile without manufacturer and year,
\* with one collection absent and another one empty.
PartialVehicleProfile ==
    /\ Composed
    /\ TruthyDict(vehicle_info)
    /\ DOMAIN vehicle_info[1] = {"model"}
    /\ \E i \in 1..4 : <<youtube_titles, youtube_descriptions,
           youtube_comments, youtube_transcripts>>[i] = None
    /\ \E i \in 1..4 : <<youtube_titles, youtube_descriptions,
           youtube_comments, youtube_transcripts>>[i] = Some(<<>>)

\* C19: the keywords list of a result has at most five entries and no
\* duplicate; in a composed result it has at least one entry, its entries
\* are in non-increasing order of weighted count, the keys of
\* keyword_counts are exactly its entries and each value is the weighted
\* count of its keyword.
KeywordsListWellFormed ==
    pc = "done" =>
        /\ Returned
        /\ Len(result.keywords) <= 5
        /\ \A i, j \in 1..Len(result.keywords) :
               i # j => result.keywords[i] # result.keywords[j]
        /\ Composed =>
               /\ Len(result.keywords) >= 1
               /\ \A i \in 1..(Len(result.keywords) - 1) :
                      ExpectedCount(result.keywords[i])
                          >= ExpectedCount(result.keywords[i + 1])
               /\ DOMAIN result.keyword_counts =
                      {result.keywords[i] : i \in 1..Len(result.keywords)}
               /\ \A k \in DOMAIN result.keyword_counts :
                      result.keyword_counts[k] = ExpectedCount(k)

\* Five keywords returned out of more than five tallied, the first with a
\* higher count than the last.
FiveOfMoreReturned ==
    /\ Composed
    /\ Len(result.keywords) = 5
    /\ Len(keyword_counter) > 5
    /\ result.keyword_counts[result.keywords[1]]
           > result.keyword_counts[result.keywords[5]]

\* The model name holds the letter d, in either case.
HasLetterD ==
    \E i \in 1..Len(model) : SubSeq(model, i, i) \in {"d", "D"}

\* C18: has_diesel is true exactly when the lower-cased model name contains
\* one of diesel, tdi, d, dci, hdi, crdi, whatever the manufacturer and the
\* year; with the bare 'd' in the list that is exactly when the model name
\* holds the letter d.
HasDieselIsLetterD ==
    vpc = "has_diesel" =>
        /\ diesel = (\E k \in {"diesel", "tdi", "d", "dci", "hdi", "crdi"} :
                         Contains(k, lower(model)))
        /\ diesel = HasLetterD

\* has_diesel answering true for a Toyota Accord, a petrol model name.
DieselForAccord ==
    /\ vpc = "has_diesel"
    /\ manufacturer = "Toyota"
    /\ model = "Accord 2.0T"
    /\ diesel

---------------------------------------------------------------------------
\* C12: extract_keywords returns exactly the vocabulary terms that occur in
\* the text as substrings, letter case ignored, each once and in the order
\* of the vocabulary wherever they stand in the text; a term inside another
\* term is reported with it; an absent or empty text gives the empty list.
ExtractIsVocabularyMatch ==
    epc = "done" =>
        IF given_text = None \/ given_text[1] = ""
        THEN found_keywords = <<>>
        ELSE /\ {found_keywords[i] : i \in 1..Len(found_keywords)} =
                    {k \in Vocabulary : Contains(k, lower(given_text[1]))}
             /\ \A i, j \in 1..Len(found_keywords) :
                    i < j => VocabularyIndex(found_keywords[i])
                                 < VocabularyIndex(found_keywords[j])

\* 'Wheel bearing': wheel comes first in the text and last in the result,
\* after bearing and the wheel bearing that holds both.
WheelBearingExtracted ==
    /\ epc = "done"
    /\ given_text = Some("Wheel bearing")
    /\ found_keywords = <<"bearing", "wheel bearing", "wheel">>

---------------------------------------------------------------------------
\* The value under a key of an optional dict, or the default when the dict
\* is absent or has no such key.
ValueAt(opt, key, default) ==
    IF opt # None /\ key \in DOMAIN opt[1] THEN opt[1][key] ELSE default

\* The number of videos of youtube_data.
VideoCount == Len(ValueAt(youtube_data, "titles", <<>>))

\* The similarity of the best match of youtube_data, 0 without one.
BestSimilarity ==
    LET best == ValueAt(youtube_data, "best_match", <<>>)
    IN  IF "similarity" \in DOMAIN best THEN best.similarity ELSE 0

\* The eight bonuses of the comprehensive confidence, as the inputs of the
\* call earn them.
EarnedBonuses ==
    << IF ValueAt(audio_features, "rms_energy", 0) > 50 THEN 5 ELSE 0,
       IF ValueAt(audio_features, "zero_crossing_rate", 0) \in 51..399
       THEN 5 ELSE 0,
       IF VideoCount >= 10 THEN 10
       ELSE IF VideoCount >= 5 THEN 7
       ELSE IF VideoCount >= 1 THEN 3 ELSE 0,
       IF ValueAt(youtube_data, "comments", <<>>) # <<>> THEN 3 ELSE 0,
       IF ValueAt(youtube_data, "transcripts", <<>>) # <<>> THEN 3 ELSE 0,
       IF BestSimilarity > 70 THEN 5
       ELSE IF BestSimilarity > 50 THEN 3 ELSE 0,
       IF ValueAt(enhanced_context, "audio_description", "") # ""
       THEN 3 ELSE 0,
       IF ValueAt(enhanced_context, "occurrence", <<>>) # <<>>
       THEN 2 ELSE 0 >>

RECURSIVE SumOf(_)
SumOf(numbers) ==
    IF numbers = <<>> THEN 0 ELSE Head(numbers) + SumOf(Tail(numbers))

\* C14: the comprehensive confidence is min(95, 70 + bonuses) with the
\* bonuses +5 for a vibration energy above 0.05, +5 for a zero-crossing
\* rate strictly between 0.05 and 0.4, one video tier (>= 10: +10, >= 5: +7,
\* >= 1: +3), +3 for comments, +3 for transcripts, one similarity tier
\* (> 0.7: +5, > 0.5: +3), +3 for a user description and +2 for an
\* occurrence context; it always lies between 70 and 95.
ComprehensiveConfidenceIsCappedSum ==
    apc = "confidence" =>
        LET sum == 70 + SumOf(EarnedBonuses)
        IN  /\ ai_confidence = IF sum < 95 THEN sum ELSE 95
            /\ ai_confidence >= 70
            /\ ai_confidence <= 95

\* Every bonus earned at its highest tier: 70 + 36, returned as 95.
EveryBonusEarned ==
    /\ apc = "confidence"
    /\ EarnedBonuses = <<5, 5, 10, 3, 3, 5, 3, 2>>
    /\ ai_confidence = 95

\* The response is a 200 whose JSON body has a string at
\* choices[0].message.content.
DiagnosisReceived ==
    /\ response # None
    /\ "status_code" \in DOMAIN response[1]
    /\ response[1].status_code = 200
    /\ response[1].body # None
    /\ "choices" \in DOMAIN response[1].body[1]
    /\ Len(response[1].body[1].choices) >= 1
    /\ "message" \in DOMAIN response[1].body[1].choices[1]
    /\ "content" \in DOMAIN response[1].body[1].choices[1].message
    /\ response[1].body[1].choices[1].message.content # None

\* C20: analyze_with_all_sources raises nothing: it returns a bundle or
\* None.  On a 200 response with a well-formed body it returns the bundle
\* of the diagnosis text, a confidence between 70 and 95, ai_generated true
\* and the sources used; on any other status, a timeout, a malformed body
\* or any other exception it returns None.
AnalyzeReturnsBundleOrNone ==
    apc = "analyzed" =>
        IF DiagnosisReceived
        THEN /\ analysis # None
             /\ DOMAIN analysis[1] =
                    {"diagnosis", "confidence", "ai_generated", "sources_used"}
             /\ analysis[1].diagnosis =
                    strip(response[1].body[1].choices[1].message.content[1])
             /\ analysis[1].confidence \in 70..95
             /\ analysis[1].ai_generated = TRUE
             /\ Len(analysis[1].sources_used) \in 0..5
        ELSE analysis = None

\* A bundle returned with all five sources used and the confidence at its
\* cap.
BundleWithFiveSources ==
    /\ apc = "analyzed"
    /\ analysis # None
    /\ Len(analysis[1].sources_used) = 5
    /\ analysis[1].confidence = 95
    /\ analysis[1].diagnosis = "Brake pad wear - Replace pads."

---------------------------------------------------------------------------
\* C16: while download_multiple runs, at most 3 calls of
\* download_audio_with_metadata are in progress at any moment, however many
\* videos were submitted.
AtMostThreeDownloads ==
    Cardinality({v \in VideoIds : future_state[v] = "RUNNING"}) <= 3

\* Three downloads in progress while a fourth video waits in the queue.
FourthVideoWaits ==
    /\ Cardinality({v \in VideoIds : future_state[v] = "RUNNING"}) = 3
    /\ work_queue # <<>>

\* The videos of the results list, in its order.
ResultVideos == [i \in 1..Len(results) |-> results[i][1]]

\* The place of video v in the order of completion.
CompletionPlace(v) == CHOOSE i \in 1..Len(completed) : completed[i] = v

\* Every video of the call was attempted once and its download is over;
\* the results hold, once each, exactly the videos whose download returned
\* an audio file.
AttemptedOnceAndCollected ==
    /\ \A i \in 1..Len(videos) :
           /\ attempts[videos[i]] = 1
           /\ future_state[videos[i]] = "FINISHED"
    /\ {ResultVideos[i] : i \in 1..Len(results)} =
           {v \in VideoIds : download[v] # None /\ download[v][1][1] # None}
    /\ \A i, j \in 1..Len(results) :
           i # j => ResultVideos[i] # ResultVideos[j]
    /\ \A i \in 1..Len(results) :
           /\ results[i][2] # None
           /\ results[i][2] = download[ResultVideos[i]][1][1]

\* C17 as stated: when download_multiple returns, every video was attempted
\* exactly once, the results are exactly the videos that produced an audio
\* file, once each, and they stand in the order of completion.
ResultsInCompletionOrder ==
    dpc = "returned" =>
        /\ AttemptedOnceAndCollected
        /\ \A i, j \in 1..Len(results) :
               i < j => CompletionPlace(ResultVideos[i])
                            < CompletionPlace(ResultVideos[j])

\* The safety part of C17 with the order as_completed gives: the videos
\* whose download was over when the collecting loop started come first, in
\* any order, and the others follow in the order of completion.
DownloadContract ==
    /\ \A v \in VideoIds : attempts[v] <= 1
    /\ dpc = "returned" =>
           /\ AttemptedOnceAndCollected
           /\ \A i, j \in 1..Len(results) :
                  i < j =>
                      \/ ResultVideos[i] \in found_finished
                      \/ /\ ResultVideos[j] \notin found_finished
                         /\ CompletionPlace(ResultVideos[i])
                                < CompletionPlace(ResultVideos[j])

\* Every video was submitted and every download is over.
AllDownloadsFinished ==
    /\ dpc \in {"submit", "collect"}
    /\ submitted = Len(videos)
    /\ \A i \in 1..Len(videos) : future_state[videos[i]] = "FINISHED"

\* C17: every submitted video is attempted exactly once; a download that
\* fails or yields no audio file is left out of the results and stops no
\* other download; once every download is over the call returns; the
\* results hold exactly the videos that produced an audio file, once each,
\* those already over when the collecting loop started first and the
\* others in the order of completion.
DownloadsCollectedOnce ==
    /\ []DownloadContract
    /\ AllDownloadsFinished ~> (dpc = "returned")

\* A call that returned after a failed download and two good ones, the
\* good ones both over before the collecting loop started and returned
\* against their order of completion.
ReturnedAgainstCompletionOrder ==
    /\ dpc = "returned"
    /\ Len(videos) >= 3
    /\ Len(results) >= 2
    /\ Len(results) < Len(videos)
    /\ {ResultVideos[1], ResultVideos[2]} \subseteq found_finished
    /\ CompletionPlace(ResultVideos[1]) > CompletionPlace(ResultVideos[2])

---------------------------------------------------------------------------
\* The candidates left when the vehicle has the turbo flag of its profile
\* and is taken to be a diesel (is_diesel true) or not.
SurvivorsIfDiesel(is_diesel) ==
    SelectSeq(ranked_keywords,
              LAMBDA kc :
                  ~ \/ kc[1] \in TurboProbes /\ ~FlagsOf(vehicle_info[1])[2]
                    \/ kc[1] \in DieselProbes /\ ~is_diesel)

\* C21: no vocabulary keyword's probe '<keyword> issue' holds diesel, dpf,
\* def or egr, so the diesel rule never fires: a candidate the filter drops
\* is one of turbo, turbocharger, wastegate and boost, and the surviving
\* candidates, the returned keywords and the diagnosis are the same whether
\* the vehicle counts as a diesel or not.
DieselRuleNeverFires ==
    /\ DieselProbes = {}
    /\ TurboProbes = {"turbo", "turbocharger", "wastegate", "boost"}
    /\ (pc = "done" /\ TruthyDict(vehicle_info) /\ ranked_keywords # <<>>) =>
           /\ \A i \in 1..Len(ranked_keywords) :
                  (\A j \in 1..Len(filtered_keywords) :
                       filtered_keywords[j] # ranked_keywords[i])
                      => ranked_keywords[i][1] \in
                             {"turbo", "turbocharger", "wastegate", "boost"}
           /\ \A is_diesel \in BOOLEAN :
                  LET survivors == SurvivorsIfDiesel(is_diesel)
                      final == IF survivors # <<>> THEN survivors
                               ELSE ranked_keywords
                  IN  /\ filtered_keywords = survivors
                      /\ Composed
                      /\ result.keywords = KeysOf(final)
                      /\ result.diagnosis = DiagnosisOf(final)

\* A Corolla, which has_diesel does not take for a diesel: wastegate is
\* dropped and brake is kept.
WastegateDroppedBrakeKept ==
    /\ Composed
    /\ vehicle_info = Some([manufacturer |-> "Toyota", model |-> "Corolla",
                            year |-> 2015])
    /\ ~FlagsOf(vehicle_info[1])[3]
    /\ \E i \in 1..Len(ranked_keywords) : ranked_keywords[i][1] = "wastegate"
    /\ \A i \in 1..Len(result.keywords) : result.keywords[i] # "wastegate"
    /\ \E i \in 1..Len(result.keywords) : result.keywords[i] = "brake"

---------------------------------------------------------------------------
\* The number of tally entries that rank before entry i of the tally: those
\* with a higher count, and those with the same count added earlier.
RankedAhead(i) ==
    Cardinality({j \in 1..Len(keyword_counter) :
        \/ keyword_counter[j][2] > keyword_counter[i][2]
        \/ keyword_counter[j][2] = keyword_counter[i][2] /\ j < i})

\* The keywords of the tally ranked sixth or lower.
BelowTopFive ==
    {keyword_counter[i][1] : i \in {j \in 1..Len(keyword_counter) :
                                        RankedAhead(j) >= 5}}

\* seq is sub with some entries left out: the same entries in the same
\* order (neither list holds an entry twice).
IsSubSequence(sub, seq) ==
    sub = SelectSeq(seq, LAMBDA e : \E i \in 1..Len(sub) : sub[i] = e)

\* C22: the plausibility filter only removes entries of the top five: the
\* surviving list and the returned keywords are a sub-sequence of the
\* unfiltered top five, a keyword ranked sixth or lower in the tally is in
\* neither keywords nor keyword_counts even when candidates were dropped,
\* and without a vehicle profile (absent or empty) nothing is filtered.
FilterOnlyRemoves ==
    (pc = "done" /\ all_keywords # <<>>) =>
        /\ Composed
        /\ IsSubSequence(filtered_keywords, ranked_keywords)
        /\ IsSubSequence(most_common_keywords, ranked_keywords)
        /\ IsSubSequence(result.keywords, KeysOf(ranked_keywords))
        /\ \A i \in 1..Len(result.keywords) :
               result.keywords[i] \notin BelowTopFive
        /\ DOMAIN result.keyword_counts \cap BelowTopFive = {}
        /\ (vehicle_info = None \/ vehicle_info = Some(<<>>)) =>
               /\ most_common_keywords = ranked_keywords
               /\ result.keywords = KeysOf(ranked_keywords)

\* Candidates dropped out of a tally of more than five keywords: fewer than
\* five are returned and the keyword ranked sixth is not among them.
SixthNotPromoted ==
    /\ Composed
    /\ Len(keyword_counter) > 5
    /\ filtered_keywords # <<>>
    /\ Len(filtered_keywords) < Len(ranked_keywords)
    /\ Len(result.keywords) < 5
    /\ BelowTopFive # {}

====
